---- MODULE Spec2Model ----
(***************************************************************************)
(* A model of lollipop's validation core: the TypeRegistry / TypeRef       *)
(* forward-reference mechanism (type_registry.py), the context-aware       *)
(* callable adapter (utils.py) and the validators Range, Length, Unique    *)
(* and Each (validators.py).                                               *)
(*                                                                         *)
(* Python's None is modelled as the empty tuple and a present value x as   *)
(* the one-element tuple <<x>>, so that optional fields compare cleanly.   *)
(***************************************************************************)
EXTENDS Integers, Sequences, FiniteSets, TLC

VARIABLES
    types,      \* TypeRegistry._types: a dict from name to Type instance
    refs,       \* every TypeRef handed out by get / __getitem__, in creation order
    last,       \* the operation performed last and how it ended
    firstAdd,   \* history: the instance given to the first successful add of a name
    func,       \* call_with_context: the callable
    args,       \* call_with_context: the positional arguments
    validator,  \* the validator under test, as built by its __init__
    value,      \* the value handed to the validator
    context,    \* the context handed to the validator / call_with_context
    result      \* the outcome of the call (None before it)

vars == <<types, refs, last, firstAdd, func, args, validator, value, context, result>>

regVars == <<types, refs, last, firstAdd>>
callVars == <<func, args, validator, value, context, result>>

----------------------------------------------------------------------------
(* Bounds of the model *)

\* TypeRefs handed out by one registry
MaxRefs == 2
\* resolver invocations counted per TypeRef
MaxResolves == 2

\* positional arguments given to call_with_context
MaxArgs == 2
\* positional parameters a callable declares (its receiver not counted)
MaxParams == 3
\* keyword-only parameters a callable declares
MaxKwOnly == 1

\* the integers handed to Range and configured as its bounds: -MaxInt..MaxInt
MaxInt == 2
\* the longest collection handed to Length, Unique and Each
MaxLen == 3
\* the items of a collection: 0..MaxItem
MaxItem == 2
\* the child validators given to Each
MaxValidators == 2

----------------------------------------------------------------------------
(* Python values *)

None == <<>>
Some(x) == <<x>>
IsNone(o) == o = <<>>
Val(o) == o[1]

Option(S) == {None} \cup {Some(x) : x \in S}

\* registry names and the Type instances (by identity) that may be registered
Names == {"Person", "Book"}
Instances == {"T1", "T2"}

\* a Python dict as a function on its key set
EmptyDict == <<>>
DictSet(d, k, v) == [x \in (DOMAIN d) \cup {k} |-> IF x = k THEN v ELSE d[x]]

----------------------------------------------------------------------------
(* type_registry.py *)

\* a faulty add, without the duplicate check
TypeRegistry_add_overwrite(t, name, a_type) ==
    [raised |-> "none", ret |-> Some(a_type), types |-> DictSet(t, name, a_type)]

\* TypeRegistry.add: returns [raised, ret, types]
TypeRegistry_add(t, name, a_type) ==
    IF name \in DOMAIN t
    THEN [raised |-> "ValueError", ret |-> None, types |-> t]
    ELSE [raised |-> "none", ret |-> Some(a_type), types |-> DictSet(t, name, a_type)]

\* TypeRegistry._get: returns [raised, ret]
TypeRegistry__get(t, name) ==
    IF name \notin DOMAIN t
    THEN [raised |-> "KeyError", ret |-> None]
    ELSE [raised |-> "none", ret |-> Some(t[name])]

\* a faulty TypeRef.__init__, which calls the resolver at once
TypeRef_init_eager(t, name) ==
    LET r == TypeRegistry__get(t, name)
    IN [name |-> name, inner |-> r.ret, resolves |-> 1,
        successes |-> IF r.raised = "none" THEN 1 ELSE 0]

\* TypeRef.__init__ on the resolver `lambda: self._get(name)` of registry t:
\* the closure is the name; resolves / successes count the resolver's
\* invocations and its successful returns (history fields, not read by the
\* program).
TypeRef_init(t, name) ==
    [name |-> name, inner |-> None, resolves |-> 0, successes |-> 0]

\* a faulty get, which looks the name up before handing out the TypeRef
TypeRegistry_get_strict(t, name) ==
    IF name \notin DOMAIN t
    THEN [raised |-> "KeyError", ret |-> None]
    ELSE [raised |-> "none", ret |-> Some(TypeRef_init(t, name))]

\* TypeRegistry.get: returns [raised, ret]
TypeRegistry_get(t, name) ==
    [raised |-> "none", ret |-> Some(TypeRef_init(t, name))]

\* TypeRegistry.__getitem__
TypeRegistry_getitem(t, key) == TypeRegistry_get(t, key)

\* a faulty inner_type, which resolves on every use
TypeRef_inner_type_nocache(ref, t) ==
    LET r == TypeRegistry__get(t, ref.name)
    IN IF r.raised # "none"
       THEN [raised |-> r.raised, ret |-> None,
             ref |-> [ref EXCEPT !.resolves = @ + 1]]
       ELSE [raised |-> "none", ret |-> r.ret,
             ref |-> [ref EXCEPT !.inner = r.ret, !.resolves = @ + 1,
                                 !.successes = @ + 1]]

\* a faulty inner_type, which resolves once and memoizes a failure too
TypeRef_inner_type_stale(ref, t) ==
    IF ref.resolves = 0
    THEN TypeRef_inner_type_nocache(ref, t)
    ELSE IF IsNone(ref.inner)
         THEN [raised |-> "KeyError", ret |-> None, ref |-> ref]
         ELSE [raised |-> "none", ret |-> ref.inner, ref |-> ref]

\* TypeRef.inner_type (property): returns [raised, ret, ref]
TypeRef_inner_type(ref, t) ==
    IF IsNone(ref.inner)
    THEN LET r == TypeRegistry__get(t, ref.name)
         IN IF r.raised # "none"
            THEN [raised |-> r.raised, ret |-> None,
                  ref |-> [ref EXCEPT !.resolves = @ + 1]]
            ELSE [raised |-> "none", ret |-> r.ret,
                  ref |-> [ref EXCEPT !.inner = r.ret, !.resolves = @ + 1,
                                      !.successes = @ + 1]]
    ELSE [raised |-> "none", ret |-> ref.inner, ref |-> ref]

Resolved(ref) == ~IsNone(ref.inner)

\* TypeRef.load / dump / __hasattr__ / __getattr__: each reads self.inner_type
\* and forwards to it; target is the instance the call was forwarded to.
UseKinds == {"load", "dump", "hasattr", "getattr"}

TypeRef_use(ref, t) ==
    LET r == TypeRef_inner_type(ref, t)
    IN [raised |-> r.raised, target |-> r.ret, ref |-> r.ref]

----------------------------------------------------------------------------
(* utils.py: the context-aware callable adapter *)

\* A callable is described by what inspect sees of it: its kind (a plain
\* function, a bound method, a class, an object with __call__, or a builtin
\* whose signature inspect cannot read) and the parameters it declares, the
\* receiver (self) not counted.
FuncKinds == {"function", "method", "class", "object", "builtin"}
Funcs == [kind : FuncKinds, nargs : 0..MaxParams, nkwonly : 0..MaxKwOnly]

ismethod(f) == f.kind = "method"
isfunction(f) == f.kind = "function"
isclass(f) == f.kind = "class"

\* inspect.getfullargspec of a bound method, of cls.__init__ and of
\* obj.__call__ lists the receiver among args; a builtin raises TypeError.
\* get_arg_count: returns [raised, ret]
get_arg_count(f) ==
    IF f.kind = "builtin"
    THEN [raised |-> "TypeError", ret |-> 0]
    ELSE [raised |-> "none",
          ret |-> (IF isfunction(f) THEN f.nargs ELSE f.nargs + 1) + f.nkwonly]

\* the try block of make_context_aware
arg_count(f, numargs) ==
    LET c == get_arg_count(f)
    IN IF c.raised = "TypeError" THEN numargs
       ELSE IF ismethod(f) THEN c.ret - 1
       ELSE IF isfunction(f) THEN c.ret
       ELSE IF isclass(f) THEN c.ret - 1
       ELSE c.ret - 1

\* a faulty make_context_aware, comparing with < instead of <=
make_context_aware_strict(f, numargs) ==
    [func |-> f, normalized |-> arg_count(f, numargs) < numargs]

\* make_context_aware: the callable itself, or `normalized` wrapping it
make_context_aware(f, numargs) ==
    [func |-> f, normalized |-> arg_count(f, numargs) <= numargs]

\* calling what make_context_aware returned with the arguments a: the
\* arguments the user's callable receives (normalized drops the last one)
Invoke(w, a) ==
    IF w.normalized THEN SubSeq(a, 1, Len(a) - 1) ELSE a

call_with_context(f, ctx, a) ==
    Invoke(make_context_aware(f, Len(a)), a \o <<ctx>>)

\* utils.identity
identity(x) == x

\* utils.is_sequence: isinstance(value, Sequence); a collection is
\* [kind, items], items in iteration order, and a set is no Sequence
is_sequence(v) == v.kind = "list"

----------------------------------------------------------------------------
(* errors.py, as the specification describes it *)

\* how a validator call ends: raised is "none", "ValidationError" or the
\* name of another exception; key is the error key given to _fail; messages
\* is the ValidationError's payload; data and extra are the substitutions
\* handed to _fail; calls lists, in order, the calls made to user callables
\* and child validators.
Ok(calls) ==
    [raised |-> "none", key |-> "", messages |-> None, data |-> None,
     extra |-> None, calls |-> calls]

Raise(exc, calls) ==
    [raised |-> exc, key |-> "", messages |-> None, data |-> None,
     extra |-> None, calls |-> calls]

\* ErrorMessagesMixin.__init__: the instance's table starts as the class's
\* default_error_messages
error_messages(defaults) == defaults

\* ErrorMessagesMixin._fail: raises ValidationError with the key's template
\* (an unknown key is a ValueError)
fail(v, error_key, data, extra, calls) ==
    IF error_key \notin DOMAIN v.error_messages
    THEN Raise("ValueError", calls)
    ELSE [raised |-> "ValidationError", key |-> error_key,
          messages |-> Some(v.error_messages[error_key]),
          data |-> data, extra |-> extra, calls |-> calls]

\* ValidationErrorBuilder: errors is None or a dict from path segment to the
\* messages recorded under it, in the order recorded
ValidationErrorBuilder == None

add_errors(errors, idx, messages) ==
    LET d == IF IsNone(errors) THEN EmptyDict ELSE Val(errors)
    IN Some(DictSet(d, idx, IF idx \in DOMAIN d THEN Append(d[idx], Val(messages))
                                                ELSE <<Val(messages)>>))

\* ValidationErrorBuilder.raise_errors: one ValidationError if anything was
\* recorded
raise_errors(errors, calls) ==
    IF IsNone(errors)
    THEN Ok(calls)
    ELSE [raised |-> "ValidationError", key |-> "", messages |-> errors,
          data |-> None, extra |-> None, calls |-> calls]

----------------------------------------------------------------------------
(* validators.py *)

\* overriding the templates of the keys in `keys` by the `error` argument
override(defaults, keys, error) ==
    IF IsNone(error)
    THEN error_messages(defaults)
    ELSE [k \in DOMAIN defaults |->
             IF k \in keys THEN Val(error) ELSE error_messages(defaults)[k]]

Predicate_default_error_messages ==
    [invalid |-> "Invalid data"]

\* the predicates given to Predicate: what inspect sees of each, and what it
\* computes. positive(value), eq_context(value, context),
\* reciprocal(value) = (1 // value == 1), which divides by zero on 0.
Predicates ==
    { [name |-> "positive", kind |-> "function", nargs |-> 1, nkwonly |-> 0],
      [name |-> "eq_context", kind |-> "function", nargs |-> 2, nkwonly |-> 0],
      [name |-> "reciprocal", kind |-> "function", nargs |-> 1, nkwonly |-> 0] }

\* calling the user's predicate with the arguments a (value first, then the
\* context when it is passed): [raised, ret]
ApplyPredicate(f, a) ==
    CASE f.name = "positive" -> [raised |-> "none", ret |-> a[1] > 0]
      [] f.name = "eq_context" -> [raised |-> "none", ret |-> a[2] = Some(a[1])]
      [] f.name = "reciprocal" ->
            IF a[1] = 0 THEN [raised |-> "ZeroDivisionError", ret |-> FALSE]
            ELSE [raised |-> "none", ret |-> a[1] = 1]

\* Predicate.__init__
Predicate_init(predicate, error) ==
    [cls |-> "Predicate",
     predicate |-> make_context_aware(predicate, 1),
     error |-> error,
     error_messages |-> override(Predicate_default_error_messages, {"invalid"}, error)]

\* Predicate.__call__
Predicate_call(v, val, ctx) ==
    LET r == ApplyPredicate(v.predicate.func, Invoke(v.predicate, <<val, ctx>>))
    IN IF r.raised # "none" THEN Raise(r.raised, <<>>)
       ELSE IF ~r.ret THEN fail(v, "invalid", Some(val), None, <<>>)
       ELSE Ok(<<>>)

Range_default_error_messages ==
    [min |-> "Value should be at least {min}",
     max |-> "Value should be at most {max}",
     range |-> "Value should be at least {min} and at most {max}"]

\* a faulty Range.__init__, which forgets the 'range' key in its override loop
Range_init_partial(min, max, error) ==
    [cls |-> "Range", min |-> min, max |-> max,
     error_messages |->
         override(Range_default_error_messages, {"min", "max"}, error)]

\* Range.__init__
Range_init(min, max, error) ==
    [cls |-> "Range", min |-> min, max |-> max,
     error_messages |->
         override(Range_default_error_messages, {"min", "max", "range"}, error)]

\* a faulty Range.__call__, testing the bounds for truth instead of `is not None`
Range_call_truthy(v, val, ctx) ==
    LET hasMin == ~IsNone(v.min) /\ Val(v.min) # 0
        hasMax == ~IsNone(v.max) /\ Val(v.max) # 0
    IN IF hasMin /\ hasMax
       THEN IF val < Val(v.min) \/ val > Val(v.max)
            THEN fail(v, "range", Some(val), None, <<>>) ELSE Ok(<<>>)
       ELSE IF hasMin
       THEN IF val < Val(v.min)
            THEN fail(v, "min", Some(val), None, <<>>) ELSE Ok(<<>>)
       ELSE IF hasMax
       THEN IF val > Val(v.max)
            THEN fail(v, "max", Some(val), None, <<>>) ELSE Ok(<<>>)
       ELSE Ok(<<>>)

\* Range.__call__
Range_call(v, val, ctx) ==
    IF ~IsNone(v.min) /\ ~IsNone(v.max)
    THEN IF val < Val(v.min) \/ val > Val(v.max)
         THEN fail(v, "range", Some(val), None, <<>>) ELSE Ok(<<>>)
    ELSE IF ~IsNone(v.min)
    THEN IF val < Val(v.min)
         THEN fail(v, "min", Some(val), None, <<>>) ELSE Ok(<<>>)
    ELSE IF ~IsNone(v.max)
    THEN IF val > Val(v.max)
         THEN fail(v, "max", Some(val), None, <<>>) ELSE Ok(<<>>)
    ELSE Ok(<<>>)

Length_default_error_messages ==
    [exact |-> "Length should be {exact}",
     min |-> "Length should be at least {min}",
     max |-> "Length should be at most {max}",
     range |-> "Length should be at least {min} and at most {max}"]

\* Length.__init__
Length_init(exact, min, max, error) ==
    [cls |-> "Length", exact |-> exact, min |-> min, max |-> max,
     error_messages |->
         override(Length_default_error_messages,
                  {"exact", "min", "max", "range"}, error)]

\* a faulty Length.__call__, testing min and max before exact
Length_call_bounds_first(v, val, ctx) ==
    LET length == Len(val.items)
    IN IF ~IsNone(v.min) /\ ~IsNone(v.max)
       THEN IF length < Val(v.min) \/ length > Val(v.max)
            THEN fail(v, "range", Some(val), Some(length), <<>>) ELSE Ok(<<>>)
       ELSE IF ~IsNone(v.exact)
       THEN IF length # Val(v.exact)
            THEN fail(v, "exact", Some(val), Some(length), <<>>) ELSE Ok(<<>>)
       ELSE IF ~IsNone(v.min)
       THEN IF length < Val(v.min)
            THEN fail(v, "min", Some(val), Some(length), <<>>) ELSE Ok(<<>>)
       ELSE IF ~IsNone(v.max)
       THEN IF length > Val(v.max)
            THEN fail(v, "max", Some(val), Some(length), <<>>) ELSE Ok(<<>>)
       ELSE Ok(<<>>)

\* Length.__call__
Length_call(v, val, ctx) ==
    LET length == Len(val.items)
    IN IF ~IsNone(v.exact)
       THEN IF length # Val(v.exact)
            THEN fail(v, "exact", Some(val), Some(length), <<>>) ELSE Ok(<<>>)
       ELSE IF ~IsNone(v.min) /\ ~IsNone(v.max)
       THEN IF length < Val(v.min) \/ length > Val(v.max)
            THEN fail(v, "range", Some(val), Some(length), <<>>) ELSE Ok(<<>>)
       ELSE IF ~IsNone(v.min)
       THEN IF length < Val(v.min)
            THEN fail(v, "min", Some(val), Some(length), <<>>) ELSE Ok(<<>>)
       ELSE IF ~IsNone(v.max)
       THEN IF length > Val(v.max)
            THEN fail(v, "max", Some(val), Some(length), <<>>) ELSE Ok(<<>>)
       ELSE Ok(<<>>)

Unique_default_error_messages ==
    [invalid |-> "Value should be collection",
     unique |-> "Values are not unique"]

\* the key functions given to Unique: identity (the default), the item's
\* parity, and a constant
KeyFuncs == {"identity", "parity", "constant"}

ApplyKey(key, item) ==
    CASE key = "identity" -> identity(item)
      [] key = "parity" -> item % 2
      [] key = "constant" -> 0

\* Unique.__init__
Unique_init(key, error) ==
    [cls |-> "Unique", key |-> key,
     error_messages |-> override(Unique_default_error_messages, {"unique"}, error)]

\* the for loop of Unique.__call__, from the i-th item on
RECURSIVE UniqueLoop(_, _, _, _, _)
UniqueLoop(v, items, i, seen, calls) ==
    IF i > Len(items)
    THEN Ok(calls)
    ELSE LET item == items[i]
             key == ApplyKey(v.key, item)
         IN IF key \in seen
            THEN fail(v, "unique", Some(item), Some(key), Append(calls, item))
            ELSE UniqueLoop(v, items, i + 1, seen \cup {key}, Append(calls, item))

\* a faulty loop, remembering only the key of the item before
RECURSIVE UniqueLoopAdjacent(_, _, _, _, _)
UniqueLoopAdjacent(v, items, i, seen, calls) ==
    IF i > Len(items)
    THEN Ok(calls)
    ELSE LET item == items[i]
             key == ApplyKey(v.key, item)
         IN IF key \in seen
            THEN fail(v, "unique", Some(item), Some(key), Append(calls, item))
            ELSE UniqueLoopAdjacent(v, items, i + 1, {key}, Append(calls, item))

Unique_call_adjacent(v, val, ctx) ==
    IF ~is_sequence(val)
    THEN fail(v, "invalid", None, None, <<>>)
    ELSE UniqueLoopAdjacent(v, val.items, 1, {}, <<>>)

\* Unique.__call__
Unique_call(v, val, ctx) ==
    IF ~is_sequence(val)
    THEN fail(v, "invalid", None, None, <<>>)
    ELSE UniqueLoop(v, val.items, 1, {}, <<>>)

Each_default_error_messages ==
    [invalid |-> "Value should be collection"]

\* Each.__init__ (a single validator is wrapped into a one-element list)
Each_init(validators) ==
    [cls |-> "Each", validators |-> validators,
     error_messages |-> error_messages(Each_default_error_messages)]

\* validator(item, context): the call of a child validator
Validator_call(v, val, ctx) ==
    CASE v.cls = "Predicate" -> Predicate_call(v, val, ctx)
      [] v.cls = "Range" -> Range_call(v, val, ctx)

\* the two for loops of Each.__call__, from item i (index i - 1) and the
\* j-th validator on; a call is logged as <<index, j>>
RECURSIVE EachLoop(_, _, _, _, _, _)
EachLoop(v, items, i, j, errors, calls) ==
    IF i > Len(items)
    THEN raise_errors(errors, calls)
    ELSE IF j > Len(v.validators)
    THEN EachLoop(v, items, i + 1, 1, errors, calls)
    ELSE LET r == Validator_call(v.validators[j], items[i], None)
             log == Append(calls, <<i - 1, j>>)
         IN IF r.raised = "ValidationError"
            THEN EachLoop(v, items, i, j + 1,
                          add_errors(errors, i - 1, r.messages), log)
            ELSE IF r.raised = "none"
            THEN EachLoop(v, items, i, j + 1, errors, log)
            ELSE Raise(r.raised, log)

\* faulty loops, raising at the first failure
RECURSIVE EachLoopFailFast(_, _, _, _, _, _)
EachLoopFailFast(v, items, i, j, errors, calls) ==
    IF i > Len(items)
    THEN raise_errors(errors, calls)
    ELSE IF j > Len(v.validators)
    THEN EachLoopFailFast(v, items, i + 1, 1, errors, calls)
    ELSE LET r == Validator_call(v.validators[j], items[i], None)
             log == Append(calls, <<i - 1, j>>)
         IN IF r.raised = "ValidationError"
            THEN raise_errors(add_errors(errors, i - 1, r.messages), log)
            ELSE IF r.raised = "none"
            THEN EachLoopFailFast(v, items, i, j + 1, errors, log)
            ELSE Raise(r.raised, log)

Each_call_failfast(v, val, ctx) ==
    IF ~is_sequence(val)
    THEN fail(v, "invalid", Some(val), None, <<>>)
    ELSE EachLoopFailFast(v, val.items, 1, 1, ValidationErrorBuilder, <<>>)

\* faulty loops, catching every exception of a child and going on
RECURSIVE EachLoopCatchAll(_, _, _, _, _, _)
EachLoopCatchAll(v, items, i, j, errors, calls) ==
    IF i > Len(items)
    THEN raise_errors(errors, calls)
    ELSE IF j > Len(v.validators)
    THEN EachLoopCatchAll(v, items, i + 1, 1, errors, calls)
    ELSE LET r == Validator_call(v.validators[j], items[i], None)
             log == Append(calls, <<i - 1, j>>)
         IN IF r.raised = "ValidationError"
            THEN EachLoopCatchAll(v, items, i, j + 1,
                                  add_errors(errors, i - 1, r.messages), log)
            ELSE EachLoopCatchAll(v, items, i, j + 1, errors, log)

Each_call_catchall(v, val, ctx) ==
    IF ~is_sequence(val)
    THEN fail(v, "invalid", Some(val), None, <<>>)
    ELSE EachLoopCatchAll(v, val.items, 1, 1, ValidationErrorBuilder, <<>>)

\* faulty loops, handing Each's context on to the child validators
RECURSIVE EachLoopForward(_, _, _, _, _, _, _)
EachLoopForward(v, items, i, j, errors, calls, ctx) ==
    IF i > Len(items)
    THEN raise_errors(errors, calls)
    ELSE IF j > Len(v.validators)
    THEN EachLoopForward(v, items, i + 1, 1, errors, calls, ctx)
    ELSE LET r == Validator_call(v.validators[j], items[i], ctx)
             log == Append(calls, <<i - 1, j>>)
         IN IF r.raised = "ValidationError"
            THEN EachLoopForward(v, items, i, j + 1,
                                 add_errors(errors, i - 1, r.messages), log, ctx)
            ELSE IF r.raised = "none"
            THEN EachLoopForward(v, items, i, j + 1, errors, log, ctx)
            ELSE Raise(r.raised, log)

Each_call_forwarding(v, val, ctx) ==
    IF ~is_sequence(val)
    THEN fail(v, "invalid", Some(val), None, <<>>)
    ELSE EachLoopForward(v, val.items, 1, 1, ValidationErrorBuilder, <<>>, ctx)

\* Each.__call__
Each_call(v, val, ctx) ==
    IF ~is_sequence(val)
    THEN fail(v, "invalid", Some(val), None, <<>>)
    ELSE EachLoop(v, val.items, 1, 1, ValidationErrorBuilder, <<>>)

----------------------------------------------------------------------------
(* The registry as a state machine *)

IdleCall ==
    /\ func = None /\ args = <<>> /\ validator = None
    /\ value = None /\ context = None /\ result = None

Init ==
    /\ types = EmptyDict
    /\ refs = <<>>
    /\ last = [op |-> "init", name |-> "", ref |-> 0, arg |-> None,
               raised |-> "none", ret |-> None]
    /\ firstAdd = EmptyDict
    /\ IdleCall

Add(name, a_type) ==
    LET r == TypeRegistry_add(types, name, a_type)
    IN /\ types' = r.types
       /\ last' = [op |-> "add", name |-> name, ref |-> 0, arg |-> Some(a_type),
                   raised |-> r.raised, ret |-> r.ret]
       /\ firstAdd' = IF name \in DOMAIN firstAdd \/ r.raised # "none"
                      THEN firstAdd ELSE DictSet(firstAdd, name, a_type)
       /\ UNCHANGED <<refs, callVars>>

\* the caller keeps the TypeRef it was given (when the call returned one)
Obtain(op, name, r) ==
    /\ refs' = IF r.raised = "none" THEN Append(refs, Val(r.ret)) ELSE refs
    /\ last' = [op |-> op, name |-> name,
                ref |-> IF r.raised = "none" THEN Len(refs) + 1 ELSE 0,
                arg |-> None, raised |-> r.raised, ret |-> None]

Get(name) ==
    /\ Len(refs) < MaxRefs
    /\ Obtain("get", name, TypeRegistry_get(types, name))
    /\ UNCHANGED <<types, firstAdd, callVars>>

GetItem(key) ==
    /\ Len(refs) < MaxRefs
    /\ Obtain("getitem", key, TypeRegistry_getitem(types, key))
    /\ UNCHANGED <<types, firstAdd, callVars>>

Use(i, kind) ==
    /\ i \in DOMAIN refs
    /\ Resolved(refs[i]) \/ refs[i].resolves < MaxResolves
    /\ LET r == TypeRef_use(refs[i], types)
       IN /\ refs' = [refs EXCEPT ![i] = r.ref]
          /\ last' = [op |-> kind, name |-> refs[i].name, ref |-> i, arg |-> None,
                      raised |-> r.raised, ret |-> r.target]
    /\ UNCHANGED <<types, firstAdd, callVars>>

Next ==
    \/ \E name \in Names, a_type \in Instances : Add(name, a_type)
    \/ \E name \in Names : Get(name)
    \/ \E key \in Names : GetItem(key)
    \/ \E i \in 1..MaxRefs, kind \in UseKinds : Use(i, kind)

Spec == Init /\ [][Next]_vars

----------------------------------------------------------------------------
(* call_with_context on every callable, argument list and context *)

IdleRegistry ==
    /\ types = EmptyDict /\ refs = <<>> /\ firstAdd = EmptyDict
    /\ last = [op |-> "init", name |-> "", ref |-> 0, arg |-> None,
               raised |-> "none", ret |-> None]

ArgValues == {"a", "b"}
Contexts == {"ctx1", "ctx2"}
SeqsUpTo(S, n) == UNION {[1..k -> S] : k \in 0..n}

InitCtx ==
    /\ IdleRegistry
    /\ func \in Funcs
    /\ args \in SeqsUpTo(ArgValues, MaxArgs)
    /\ context \in Contexts
    /\ validator = None /\ value = None
    /\ result = None

CallWithContext ==
    /\ result = None
    /\ result' = Some([called |-> call_with_context(func, context, args)])
    /\ UNCHANGED <<regVars, func, args, validator, value, context>>

NextCtx == CallWithContext

SpecCtx == InitCtx /\ [][NextCtx]_vars

\* C7: with a the callable's declared parameter count (receiver excluded),
\* call_with_context(func, context, *args) calls func with args alone when
\* a <= len(args) and with args followed by context when a > len(args); a
\* callable whose arity cannot be inspected gets args alone.
C7_ContextByArity ==
    ~IsNone(result) =>
        LET a == func.nargs + func.nkwonly
            called == Val(result).called
        IN IF func.kind = "builtin" \/ a <= Len(args)
           THEN called = args
           ELSE called = Append(args, context)

\* a bound method declaring (self, value) was called with the value alone, and
\* so was a one-argument function; a two-argument one would get the context
C7_Witness ==
    /\ ~IsNone(result)
    /\ func.kind = "method" /\ func.nargs = 1 /\ func.nkwonly = 0
    /\ Len(args) = 1
    /\ Val(result).called = args
    /\ call_with_context([func EXCEPT !.nargs = 2], context, args)
           = Append(args, context)

----------------------------------------------------------------------------
(* The validators on every configuration and value *)

Ints == (0 - MaxInt)..MaxInt
Items == 0..MaxItem
Errors == Option({"custom error"})

\* a list is any sequence of items; a set iterates over distinct items
IsInjective(q) == \A i, j \in DOMAIN q : q[i] = q[j] => i = j
Lists == {[kind |-> "list", items |-> q] : q \in SeqsUpTo(Items, MaxLen)}
Sets == {[kind |-> "set", items |-> q] :
            q \in {x \in SeqsUpTo(Items, MaxLen) : IsInjective(x)}}
Collections == Lists \cup Sets

\* len() is all Length reads of its value
Sized == {[kind |-> "list", items |-> [i \in 1..k |-> 0]] : k \in 0..MaxLen}

Pending == /\ IdleRegistry /\ func = None /\ args = <<>> /\ result = None

Finish(r) ==
    /\ result = None
    /\ result' = Some(r)
    /\ UNCHANGED <<regVars, func, args, validator, value, context>>

InitRange ==
    /\ Pending
    /\ validator \in {Range_init(mn, mx, e) :
                          mn \in Option(Ints), mx \in Option(Ints), e \in Errors}
    /\ value \in Ints
    /\ context = None

CallRange == Finish(Range_call(validator, value, context))

NextRange == CallRange

SpecRange == InitRange /\ [][NextRange]_vars

InitLength ==
    /\ Pending
    /\ validator \in {Length_init(ex, mn, mx, e) :
                          ex \in Option(0..MaxInt), mn \in Option(0..MaxInt),
                          mx \in Option(0..MaxInt), e \in Errors}
    /\ value \in Sized
    /\ context = None

CallLength == Finish(Length_call(validator, value, context))

NextLength == CallLength

SpecLength == InitLength /\ [][NextLength]_vars

InitUnique ==
    /\ Pending
    /\ validator \in {Unique_init(k, e) : k \in KeyFuncs, e \in Errors}
    /\ value \in Collections
    /\ context = None

CallUnique == Finish(Unique_call(validator, value, context))

NextUnique == CallUnique

SpecUnique == InitUnique /\ [][NextUnique]_vars

\* the validators with several error keys, each on its own inputs
InitMultiKey == InitRange \/ InitLength \/ InitUnique

NextMultiKey ==
    \/ validator.cls = "Range" /\ CallRange
    \/ validator.cls = "Length" /\ CallLength
    \/ validator.cls = "Unique" /\ CallUnique

SpecMultiKey == InitMultiKey /\ [][NextMultiKey]_vars

\* the child validators Each is built from
Children ==
    { Range_init(Some(1), None, None),
      Range_init(None, Some(1), None),
      Range_init(Some(1), Some(1), None),
      Predicate_init([name |-> "eq_context", kind |-> "function",
                      nargs |-> 2, nkwonly |-> 0], None),
      Predicate_init([name |-> "reciprocal", kind |-> "function",
                      nargs |-> 1, nkwonly |-> 0], None) }

\* the contexts Each is called with: none, or one that is also an item
EachContexts == {None, Some(1)}

InitEach ==
    /\ Pending
    /\ validator \in {Each_init(vs) : vs \in SeqsUpTo(Children, MaxValidators)}
    /\ value \in Collections
    /\ context \in EachContexts

CallEach == Finish(Each_call(validator, value, context))

NextEach == CallEach

SpecEach == InitEach /\ [][NextEach]_vars

Done == ~IsNone(result)
Res == Val(result)

\* how the Range call ended
C8_Failed(k) == Res.raised = "ValidationError" /\ Res.key = k
C8_Passed == Res.raised = "none"

\* C8: Range(min, max): with both bounds it succeeds iff min <= value <= max
\* and otherwise fails with key 'range'; with min only it fails with 'min'
\* iff value < min; with max only it fails with 'max' iff value > max; with
\* no bound it always succeeds. In particular min > max fails every value
\* with 'range'.
C8_Range ==
    Done =>
        LET mn == validator.min
            mx == validator.max
        IN /\ Res.raised \in {"none", "ValidationError"}
           /\ ~IsNone(mn) /\ ~IsNone(mx) =>
                 /\ C8_Passed <=> (Val(mn) <= value /\ value <= Val(mx))
                 /\ ~C8_Passed => C8_Failed("range")
                 /\ Val(mn) > Val(mx) => C8_Failed("range")
           /\ ~IsNone(mn) /\ IsNone(mx) =>
                 /\ C8_Failed("min") <=> value < Val(mn)
                 /\ ~C8_Failed("min") => C8_Passed
           /\ IsNone(mn) /\ ~IsNone(mx) =>
                 /\ C8_Failed("max") <=> value > Val(mx)
                 /\ ~C8_Failed("max") => C8_Passed
           /\ IsNone(mn) /\ IsNone(mx) => C8_Passed

\* a value on the inclusive lower bound 0 passed
C8_Witness ==
    /\ Done
    /\ validator.min = Some(0) /\ validator.max = Some(1)
    /\ value = 0
    /\ C8_Passed

\* C9: Length with exact = k succeeds iff len(value) = k and otherwise fails
\* with key 'exact', whatever min and max are; without exact it applies the
\* two-sided ('range') or one-sided ('min' / 'max') check to len(value).
C9_Length ==
    Done =>
        LET ex == validator.exact
            mn == validator.min
            mx == validator.max
            n == Len(value.items)
            failed(k) == Res.raised = "ValidationError" /\ Res.key = k
            passed == Res.raised = "none"
        IN /\ Res.raised \in {"none", "ValidationError"}
           /\ ~IsNone(ex) =>
                 /\ passed <=> n = Val(ex)
                 /\ ~passed => failed("exact")
           /\ IsNone(ex) /\ ~IsNone(mn) /\ ~IsNone(mx) =>
                 /\ passed <=> (Val(mn) <= n /\ n <= Val(mx))
                 /\ ~passed => failed("range")
           /\ IsNone(ex) /\ ~IsNone(mn) /\ IsNone(mx) =>
                 /\ passed <=> Val(mn) <= n
                 /\ ~passed => failed("min")
           /\ IsNone(ex) /\ IsNone(mn) /\ ~IsNone(mx) =>
                 /\ passed <=> n <= Val(mx)
                 /\ ~passed => failed("max")
           /\ IsNone(ex) /\ IsNone(mn) /\ IsNone(mx) => passed

\* a value of the exact length passed although it is outside [min, max]
C9_Witness ==
    /\ Done
    /\ validator.exact = Some(2)
    /\ validator.min = Some(0) /\ validator.max = Some(1)
    /\ Len(value.items) = 2
    /\ Res.raised = "none"

\* C10: Unique(key) fails with 'invalid' on a value that is no sequence; on a
\* sequence it computes key(item) item by item, in order, and fails with
\* 'unique' on the first item whose key equals an earlier item's key,
\* reporting that item and its key and looking at no later item; it succeeds
\* iff all keys are pairwise distinct.
C10_Unique ==
    Done =>
        LET items == value.items
            K(i) == ApplyKey(validator.key, items[i])
            Dups == {j \in DOMAIN items : \E i \in 1..(j - 1) : K(i) = K(j)}
        IN IF ~is_sequence(value)
           THEN /\ Res.raised = "ValidationError" /\ Res.key = "invalid"
                /\ Res.calls = <<>>
           ELSE IF Dups = {}
           THEN /\ Res.raised = "none"
                /\ Res.calls = items
           ELSE LET first == CHOOSE j \in Dups : \A k \in Dups : j <= k
                IN /\ Res.raised = "ValidationError" /\ Res.key = "unique"
                   /\ Res.data = Some(items[first])
                   /\ Res.extra = Some(K(first))
                   /\ Res.calls = SubSeq(items, 1, first)

\* two different items with the same parity followed by another item: the
\* failure is on the second of them and the last item is not read
C10_Witness ==
    /\ Done
    /\ validator.key = "parity"
    /\ value = [kind |-> "list", items |-> <<0, 2, 1>>]
    /\ Res.key = "unique"
    /\ Res.data = Some(2)
    /\ Res.extra = Some(0)
    /\ Res.calls = <<0, 2>>

\* the validator was built with error="custom error"
C11_WithError ==
    CASE validator.cls = "Range" ->
           validator = Range_init(validator.min, validator.max, Some("custom error"))
      [] validator.cls = "Length" ->
           validator = Length_init(validator.exact, validator.min, validator.max,
                                   Some("custom error"))
      [] validator.cls = "Unique" ->
           validator = Unique_init(validator.key, Some("custom error"))

\* C11 as claimed: every failure of a Range, Length or Unique built with an
\* `error` override, whatever its key, carries the override message.
C11_OverrideAllKeys ==
    Done /\ C11_WithError /\ Res.raised = "ValidationError" =>
        Res.messages = Some("custom error")

\* C11 as amended: every failure of a Range or Length built with an `error`
\* override carries the override message, whatever its key; a Unique built
\* with an `error` override carries it on its 'unique' failure only, and its
\* 'invalid' failure keeps the default message.
C11_OverrideRouting ==
    Done /\ C11_WithError /\ Res.raised = "ValidationError" =>
        IF validator.cls = "Unique" /\ Res.key = "invalid"
        THEN Res.messages = Some(Unique_default_error_messages["invalid"])
        ELSE /\ Res.messages = Some("custom error")
             /\ validator.cls = "Range" => Res.key \in {"min", "max", "range"}
             /\ validator.cls = "Length" => Res.key \in {"exact", "min", "max", "range"}
             /\ validator.cls = "Unique" => Res.key = "unique"

\* a Unique built with an override refused a set with its default message
C11_Witness ==
    /\ Done
    /\ validator = Unique_init("identity", Some("custom error"))
    /\ ~is_sequence(value)
    /\ Res.raised = "ValidationError" /\ Res.key = "invalid"
    /\ Res.messages = Some("Value should be collection")

\* what the j-th child validator does on the i-th item, called with the item alone
C1_Outcome(i, j) == Validator_call(validator.validators[j], value.items[i], None)

\* the messages of the validators 1..j that fail on the i-th item, in list order
RECURSIVE C1_Messages(_, _)
C1_Messages(i, j) ==
    IF j = 0 THEN <<>>
    ELSE IF C1_Outcome(i, j).raised = "ValidationError"
    THEN Append(C1_Messages(i, j - 1), Val(C1_Outcome(i, j).messages))
    ELSE C1_Messages(i, j - 1)

\* C1: Each on a sequence, when no child raises anything but a
\* ValidationError: every validator, in list order, is called on every item,
\* in index order, whatever failed before; the failures are recorded under
\* the item's index; one ValidationError is raised at the end iff something
\* failed, and its payload has exactly the failing indices, each holding the
\* messages of all the validators that failed there, in list order.
C1_EachAccumulates ==
    LET n == Len(value.items)
        m == Len(validator.validators)
        Failing == {i \in 1..n :
                       \E j \in 1..m : C1_Outcome(i, j).raised = "ValidationError"}
    IN (/\ Done
        /\ is_sequence(value)
        /\ \A i \in 1..n, j \in 1..m :
              C1_Outcome(i, j).raised \in {"none", "ValidationError"})
       =>
       /\ Res.calls = [k \in 1..(n * m) |-> <<(k - 1) \div m, ((k - 1) % m) + 1>>]
       /\ Res.raised = IF Failing = {} THEN "none" ELSE "ValidationError"
       /\ Failing # {} =>
             /\ DOMAIN Val(Res.messages) = {i - 1 : i \in Failing}
             /\ \A i \in Failing : Val(Res.messages)[i - 1] = C1_Messages(i, m)

\* on [1, 0, 1] with Range(min=1) and Range(min=1, max=1): both fail on index
\* 1 only, both ran on index 2 afterwards, and the payload is {1: [two messages]}
C1_Witness ==
    /\ Done
    /\ value = [kind |-> "list", items |-> <<1, 0, 1>>]
    /\ validator.validators =
           <<Range_init(Some(1), None, None), Range_init(Some(1), Some(1), None)>>
    /\ Res.raised = "ValidationError"
    /\ DOMAIN Val(Res.messages) = {1}
    /\ Len(Val(Res.messages)[1]) = 2
    /\ Len(Res.calls) = 6

\* the k-th call of the walk: <<item position, validator position>>
C12_Pair(k) ==
    LET m == Len(validator.validators)
    IN <<((k - 1) \div m) + 1, ((k - 1) % m) + 1>>

\* the calls of the walk on which the child raises something other than a
\* ValidationError
C12_Foreign ==
    {k \in 1..(Len(value.items) * Len(validator.validators)) :
        C1_Outcome(C12_Pair(k)[1], C12_Pair(k)[2]).raised
            \notin {"none", "ValidationError"}}

\* C12: on a value that is no sequence Each fails with 'invalid' before it
\* calls any child; on a sequence, the first exception of a child that is no
\* ValidationError leaves Each at once: it is what Each raises, no later
\* validator or item is run, and no combined ValidationError is raised for
\* the failures recorded before it.
C12_EachPropagates ==
    Done =>
        IF ~is_sequence(value)
        THEN /\ Res.raised = "ValidationError" /\ Res.key = "invalid"
             /\ Res.data = Some(value)
             /\ Res.calls = <<>>
        ELSE C12_Foreign # {} =>
               LET first == CHOOSE k \in C12_Foreign : \A x \in C12_Foreign : k <= x
                   at == C12_Pair(first)
               IN /\ Res.raised = C1_Outcome(at[1], at[2]).raised
                  /\ Res.raised # "ValidationError"
                  /\ Res.messages = None
                  /\ Res.calls = [k \in 1..first |->
                                     <<C12_Pair(k)[1] - 1, C12_Pair(k)[2]>>]

\* on [0, 1] with Range(min=1) and the reciprocal predicate: the Range failure
\* on index 0 was recorded, then the predicate divided by zero, which is what
\* Each raised; index 1 was never looked at
C12_Witness ==
    /\ Done
    /\ value = [kind |-> "list", items |-> <<0, 1>>]
    /\ validator.validators =
           <<Range_init(Some(1), None, None),
             Predicate_init([name |-> "reciprocal", kind |-> "function",
                             nargs |-> 1, nkwonly |-> 0], None)>>
    /\ Res.raised = "ZeroDivisionError"
    /\ Res.calls = <<<<0, 1>>, <<0, 2>>>>

\* the child is a Predicate whose predicate takes the context
C13_ContextAware(child) ==
    child.cls = "Predicate" /\ ~child.predicate.normalized

\* C13: Each hands its context to no child: whatever context Each is called
\* with, the outcome is the one it has with any other context, and a child
\* whose predicate takes the context (value == context) sees None there, so
\* it fails on every item it is called on, also on an item equal to the
\* context Each was given.
C13_EachIgnoresContext ==
    Done =>
        /\ \A c \in EachContexts \ {context} : Each_call(validator, value, c) = Res
        /\ is_sequence(value) /\ Res.raised = "none" /\ value.items # <<>> =>
              \A j \in DOMAIN validator.validators :
                  ~C13_ContextAware(validator.validators[j])
        /\ is_sequence(value) /\ Res.raised = "ValidationError" =>
              \A k \in DOMAIN Res.calls :
                  C13_ContextAware(validator.validators[Res.calls[k][2]]) =>
                      /\ Res.calls[k][1] \in DOMAIN Val(Res.messages)
                      /\ \E x \in DOMAIN Val(Res.messages)[Res.calls[k][1]] :
                            Val(Res.messages)[Res.calls[k][1]][x] = "Invalid data"

\* Each was called with context 1 on [1] with the predicate value == context,
\* which holds of that item under that context: the child failed on it
C13_Witness ==
    /\ Done
    /\ context = Some(1)
    /\ value = [kind |-> "list", items |-> <<1>>]
    /\ Len(validator.validators) = 1
    /\ C13_ContextAware(validator.validators[1])
    /\ Predicate_call(validator.validators[1], 1, context).raised = "none"
    /\ Res.raised = "ValidationError"
    /\ DOMAIN Val(Res.messages) = {0}

----------------------------------------------------------------------------
(* Properties of the registry *)

IsUse(l) == l.op \in UseKinds
IsGet(l) == l.op \in {"get", "getitem"}

\* C2: a use of a TypeRef (load, dump, attribute access) raises the "not
\* registered" KeyError exactly when the TypeRef's name is absent from the
\* registry at that use, and otherwise is forwarded to the very instance that
\* was passed to add under that name; this also holds for a TypeRef obtained,
\* or used in vain, before the name was added.
C2_UseRaisesIffAbsent ==
    IsUse(last) =>
        LET name == refs[last.ref].name
        IN /\ last.raised \in {"none", "KeyError"}
           /\ (last.raised = "KeyError") <=> (name \notin DOMAIN types)
           /\ last.raised = "none" =>
                  /\ name \in DOMAIN firstAdd
                  /\ last.ret = Some(firstAdd[name])

\* a TypeRef that failed to resolve before its name was added, then was used
\* successfully
C2_Witness ==
    /\ IsUse(last)
    /\ last.raised = "none"
    /\ refs[last.ref].resolves >= 2

\* what a call of add does to the registry, and what it returns
C3_AddStep ==
    last'.op = "add" =>
        IF last'.name \in DOMAIN types
        THEN /\ last'.raised = "ValueError"
             /\ types' = types
        ELSE /\ last'.raised = "none"
             /\ last'.ret = last'.arg
             /\ last'.name \in DOMAIN types'
             /\ Some(types'[last'.name]) = last'.arg
             /\ DOMAIN types' = DOMAIN types \cup {last'.name}

\* no step removes or rebinds a registered name
C3_OneWay ==
    /\ \A n \in DOMAIN types : n \in DOMAIN types' /\ types'[n] = types[n]
    /\ \A n \in DOMAIN types' : n \in DOMAIN firstAdd' /\ types'[n] = firstAdd'[n]

\* C3: add on an absent name stores the instance and returns that same
\* instance; add on a registered name raises ValueError and leaves the
\* registry unchanged; a registered name keeps the instance of its first add
\* and never becomes absent again.
C3_RegisteredOnce ==
    [][C3_AddStep /\ C3_OneWay]_vars

\* a second add of a registered name, with another instance, was refused
C3_Witness ==
    /\ last.op = "add"
    /\ last.raised = "ValueError"
    /\ last.name \in DOMAIN types
    /\ Some(types[last.name]) # last.arg

\* C4 as claimed: the resolver of a TypeRef is invoked at most once in total,
\* and never at construction (get) time.
C4_ResolverAtMostOnce ==
    /\ \A i \in DOMAIN refs : refs[i].resolves <= 1
    /\ IsGet(last) /\ last.raised = "none" => refs[last.ref].resolves = 0

\* a TypeRef is resolved iff its resolver returned once
C4_Counts ==
    \A i \in DOMAIN refs :
        /\ refs[i].successes <= 1
        /\ refs[i].successes <= refs[i].resolves
        /\ Resolved(refs[i]) <=> refs[i].successes = 1

\* the resolver runs only in a use of an unresolved TypeRef, once per use
C4_Step ==
    /\ \A i \in DOMAIN refs' :
          i \notin DOMAIN refs => refs'[i].resolves = 0 /\ IsGet(last')
    /\ \A i \in DOMAIN refs :
          refs'[i].resolves # refs[i].resolves =>
              /\ IsUse(last') /\ last'.ref = i
              /\ ~Resolved(refs[i])
              /\ refs'[i].resolves = refs[i].resolves + 1
    /\ \A i \in DOMAIN refs :
          IsUse(last') /\ last'.ref = i /\ ~Resolved(refs[i]) =>
              refs'[i].resolves = refs[i].resolves + 1

\* C4 as amended: the resolver is never invoked at construction (get) time but
\* only by a use of a TypeRef that has not resolved yet, once per such use; an
\* invocation that raises is not memoized, so the resolver returns a target
\* at most once and is never invoked after that.
C4_ResolverUntilSuccess ==
    [](C4_Counts) /\ [][C4_Step]_vars

\* a TypeRef whose resolver ran in vain and then succeeded
C4_Witness ==
    \E i \in DOMAIN refs :
        /\ refs[i].resolves >= 2
        /\ refs[i].successes = 1
        /\ IsUse(last) /\ last.ref = i

\* the cached target is the registered instance
C5_CacheIsRegistered ==
    \A i \in DOMAIN refs :
        Resolved(refs[i]) =>
            /\ refs[i].name \in DOMAIN types
            /\ refs[i].inner = Some(types[refs[i].name])

\* no step changes a cached target or resolves it again
C5_CacheKept ==
    \A i \in DOMAIN refs :
        Resolved(refs[i]) =>
            /\ refs'[i].inner = refs[i].inner
            /\ refs'[i].resolves = refs[i].resolves
            /\ IsUse(last') /\ last'.ref = i =>
                  last'.raised = "none" /\ last'.ret = refs[i].inner

\* C5: once a TypeRef has resolved, its cached target never changes and is
\* never resolved again: every later use is forwarded to that same instance,
\* which is the instance registered under the TypeRef's name.
C5_CacheForever ==
    [](C5_CacheIsRegistered) /\ [][C5_CacheKept]_vars

\* a TypeRef resolved once and used again after a later TypeRef for the same
\* name was obtained and resolved
C5_Witness ==
    \E i \in DOMAIN refs :
        /\ Resolved(refs[i])
        /\ refs[i].resolves = 1
        /\ IsUse(last) /\ last.ref = i
        /\ \E j \in DOMAIN refs : j > i /\ refs[j].name = refs[i].name
                                      /\ Resolved(refs[j])

\* what a call of get or __getitem__ changes
C6_GetStep ==
    IsGet(last') =>
        /\ types' = types
        /\ last'.raised = "none"
        /\ Len(refs') = Len(refs) + 1
        /\ SubSeq(refs', 1, Len(refs)) = refs
        /\ refs'[Len(refs')].name = last'.name
        /\ ~Resolved(refs'[Len(refs')])
        /\ refs'[Len(refs')].resolves = 0

\* C6: get(name) and registry[name] do the same thing: they never raise,
\* registered name or not, they return a new unresolved TypeRef without
\* looking the name up, and they leave the registry's name table as it was.
C6_GetIsPure ==
    [][/\ C6_GetStep
       /\ \A name \in Names :
             TypeRegistry_get(types, name) = TypeRegistry_getitem(types, name)]_vars

\* a TypeRef obtained by subscript for a name that is not registered, while
\* another name is
C6_Witness ==
    /\ last.op = "getitem"
    /\ last.raised = "none"
    /\ last.name \notin DOMAIN types
    /\ DOMAIN types # {}
    /\ Len(refs) = 2 /\ refs[1].name = last.name

====
